---- MODULE Spec2Model ----
(***************************************************************************)
(* context-keeper (src/src/main.rs): the context collection and tiered     *)
(* rendering engine.  Text is modelled as a sequence of tokens: a dynamic  *)
(* string is the sequence of its characters, a literal of the source is    *)
(* one token.  Files are sequences of tokens as well.                      *)
(***************************************************************************)
EXTENDS Integers, Sequences, FiniteSets, TLC

VARIABLES
  file,      \* the work-state file ~/.contextkeeper/work-state.json
  clock,     \* the wall clock chrono::Utc::now() reads
  cfgFiles,  \* the three well-known configuration files of the working directory
  log,       \* the lines of the command-history log
  tree,      \* the directory tree under the working directory: .git entries, unreadable directories
  gitOK,     \* whether the git binary can be run
  lastSave,  \* the last save attempt: which operation, its WorkState, its io::Result
  result,    \* the CallToolResult of the last save_work_state call
  shown,     \* the last get_dev_context: level, Context and rendered markdown
  pc,        \* concurrent invocations: each one's position inside save_work_state_to_file
  arg,       \* concurrent invocations: the WorkState each one is saving
  off,       \* concurrent invocations: each one's file offset (tokens written so far)
  loaded,    \* concurrent invocations: what the last load_work_state_from_file returned
  hist,      \* the last collect_command_history call: its Config and its result
  found      \* the last repository discovery: its arguments and its result

vars == <<file, clock, cfgFiles, log, tree, gitOK, lastSave, result, shown,
          pc, arg, off, loaded, hist, found>>

----------------------------------------------------------------------------
(* Option<T> *)

NoneV == [some |-> FALSE]

Some(x) == [some |-> TRUE, v |-> x]

----------------------------------------------------------------------------
(* Bounds of the model *)

\* the clock takes the values 0..MaxClock
MaxClock == 1

\* a failing write_all has written at most MaxCut tokens of the content
MaxCut == 0

----------------------------------------------------------------------------
(* serde_json: to_string_pretty and from_str for WorkState.  The white     *)
(* space of the pretty printer, which the parser skips, is not modelled.   *)

\* the characters serde_json escapes in a string (of those the model uses)
JsonSpecial == {"\"", "\\"}

RECURSIVE EscapeStr(_)
EscapeStr(s) ==
  IF s = <<>> THEN <<>>
  ELSE (IF Head(s) \in JsonSpecial THEN <<"\\", Head(s)>> ELSE <<Head(s)>>)
       \o EscapeStr(Tail(s))

JsonString(s) == <<"\"">> \o EscapeStr(s) \o <<"\"">>

JsonKey(k) == JsonString(<<k>>) \o <<":">>

RECURSIVE JsonStringItems(_)
JsonStringItems(xs) ==
  IF xs = <<>> THEN <<>>
  ELSE IF Len(xs) = 1 THEN JsonString(xs[1])
  ELSE JsonString(Head(xs)) \o <<",">> \o JsonStringItems(Tail(xs))

JsonStringArray(xs) == <<"[">> \o JsonStringItems(xs) \o <<"]">>

JsonTodo(t) ==
  <<"{">> \o JsonKey("content") \o JsonString(t.content) \o <<",">>
          \o JsonKey("status") \o JsonString(t.status) \o <<"}">>

RECURSIVE JsonTodoItems(_)
JsonTodoItems(ts) ==
  IF ts = <<>> THEN <<>>
  ELSE IF Len(ts) = 1 THEN JsonTodo(ts[1])
  ELSE JsonTodo(Head(ts)) \o <<",">> \o JsonTodoItems(Tail(ts))

JsonTodoArray(ts) == <<"[">> \o JsonTodoItems(ts) \o <<"]">>

\* serde_json::to_string_pretty(state): the fields in declaration order
to_string_pretty(ws) ==
  <<"{">> \o JsonKey("saved_at") \o JsonString(ws.saved_at) \o <<",">>
          \o JsonKey("trigger") \o JsonString(ws.trigger) \o <<",">>
          \o JsonKey("task_summary") \o JsonString(ws.task_summary) \o <<",">>
          \o JsonKey("working_files") \o JsonStringArray(ws.working_files) \o <<",">>
          \o JsonKey("notes") \o JsonString(ws.notes) \o <<",">>
          \o JsonKey("todos") \o JsonTodoArray(ws.todos) \o <<"}">>

Fail == [ok |-> FALSE]

Tok(t, i, c) == i <= Len(t) /\ t[i] = c

\* the body of a string literal from position i, up to its closing quote
RECURSIVE ScanString(_, _, _)
ScanString(t, i, acc) ==
  IF i > Len(t) THEN Fail
  ELSE IF t[i] = "\"" THEN [ok |-> TRUE, v |-> acc, next |-> i + 1]
  ELSE IF t[i] = "\\"
       THEN IF i + 1 <= Len(t) /\ t[i + 1] \in JsonSpecial
            THEN ScanString(t, i + 2, Append(acc, t[i + 1]))
            ELSE Fail
  ELSE ScanString(t, i + 1, Append(acc, t[i]))

ParseString(t, i) == IF Tok(t, i, "\"") THEN ScanString(t, i + 1, <<>>) ELSE Fail

\* the field named k with a string value, from position i
KeyIs(t, r, k) ==
  IF r.ok /\ r.v = <<k>> /\ Tok(t, r.next, ":")
  THEN [ok |-> TRUE, next |-> r.next + 1]
  ELSE Fail

ParseKey(t, i, k) == KeyIs(t, ParseString(t, i), k)

StringAfter(t, r) == IF r.ok THEN ParseString(t, r.next) ELSE Fail

ParseStringField(t, i, k) == StringAfter(t, ParseKey(t, i, k))

\* the items of an array of strings from position i, up to its closing bracket
RECURSIVE ParseStringItems(_, _, _)
RECURSIVE StringItem(_, _, _)
StringItem(t, r, acc) ==
  IF ~r.ok THEN Fail
  ELSE IF Tok(t, r.next, ",") THEN ParseStringItems(t, r.next + 1, Append(acc, r.v))
  ELSE IF Tok(t, r.next, "]")
       THEN [ok |-> TRUE, v |-> Append(acc, r.v), next |-> r.next + 1]
  ELSE Fail

ParseStringItems(t, i, acc) == StringItem(t, ParseString(t, i), acc)

ParseStringArray(t, i) ==
  IF ~Tok(t, i, "[") THEN Fail
  ELSE IF Tok(t, i + 1, "]") THEN [ok |-> TRUE, v |-> <<>>, next |-> i + 2]
  ELSE ParseStringItems(t, i + 1, <<>>)

TodoOf(t, st) ==
  IF st.ok /\ Tok(t, st.next, "}")
  THEN [ok |-> TRUE, v |-> [content |-> st.acc[1], status |-> st.acc[2]],
        next |-> st.next + 1]
  ELSE Fail

TodoStart(t, i) ==
  IF Tok(t, i, "{") THEN [ok |-> TRUE, next |-> i + 1, acc |-> <<>>] ELSE Fail

\* the fields read so far of an object: the position after them, their values
Took(st, r) ==
  IF r.ok THEN [ok |-> TRUE, next |-> r.next, acc |-> Append(st.acc, r.v)] ELSE Fail

Comma(t, st) ==
  IF st.ok /\ Tok(t, st.next, ",") THEN [st EXCEPT !.next = @ + 1] ELSE Fail

StringField(t, st, k) ==
  IF st.ok THEN Took(st, ParseStringField(t, st.next, k)) ELSE Fail

ParseTodo(t, i) ==
  TodoOf(t, StringField(t, Comma(t, StringField(t, TodoStart(t, i), "content")), "status"))

\* the items of an array of todo items from position i, up to its closing bracket
RECURSIVE ParseTodoItems(_, _, _)
RECURSIVE TodoItem(_, _, _)
TodoItem(t, r, acc) ==
  IF ~r.ok THEN Fail
  ELSE IF Tok(t, r.next, ",") THEN ParseTodoItems(t, r.next + 1, Append(acc, r.v))
  ELSE IF Tok(t, r.next, "]")
       THEN [ok |-> TRUE, v |-> Append(acc, r.v), next |-> r.next + 1]
  ELSE Fail

ParseTodoItems(t, i, acc) == TodoItem(t, ParseTodo(t, i), acc)

ParseTodoArray(t, i) ==
  IF ~Tok(t, i, "[") THEN Fail
  ELSE IF Tok(t, i + 1, "]") THEN [ok |-> TRUE, v |-> <<>>, next |-> i + 2]
  ELSE ParseTodoItems(t, i + 1, <<>>)

\* serde_json::from_str::<Vec<TodoItem>>(text): the whole text is one array
WholeText(t, r) == IF r.ok /\ r.next = Len(t) + 1 THEN Some(r.v) ELSE NoneV

from_str_todos(t) == WholeText(t, ParseTodoArray(t, 1))

FieldsStart(t) ==
  IF Tok(t, 1, "{") THEN [ok |-> TRUE, next |-> 2, acc |-> <<>>] ELSE Fail

AfterKey(t, st, k) ==
  IF st.ok THEN ParseKey(t, st.next, k) ELSE Fail

StringArrayValue(t, st, key) ==
  IF key.ok THEN Took(st, ParseStringArray(t, key.next)) ELSE Fail

TodoArrayValue(t, st, key) ==
  IF key.ok THEN Took(st, ParseTodoArray(t, key.next)) ELSE Fail

StringArrayField(t, st, k) == StringArrayValue(t, st, AfterKey(t, st, k))

TodoArrayField(t, st, k) == TodoArrayValue(t, st, AfterKey(t, st, k))

WorkStateOf(t, st) ==
  IF st.ok /\ Tok(t, st.next, "}") /\ st.next = Len(t)
  THEN Some([saved_at |-> st.acc[1], trigger |-> st.acc[2], task_summary |-> st.acc[3],
             working_files |-> st.acc[4], notes |-> st.acc[5], todos |-> st.acc[6]])
  ELSE NoneV

\* serde_json::from_str::<WorkState>(content): every field is required, and
\* nothing may follow the closing brace
from_str_work_state(t) ==
  WorkStateOf(t,
    TodoArrayField(t, Comma(t,
    StringField(t, Comma(t,
    StringArrayField(t, Comma(t,
    StringField(t, Comma(t,
    StringField(t, Comma(t,
    StringField(t, FieldsStart(t), "saved_at")),
      "trigger")),
      "task_summary")),
      "working_files")),
      "notes")),
      "todos"))

----------------------------------------------------------------------------
(* The work-state store *)

Absent == [kind |-> "absent", content |-> <<>>]

\* an entry at the path that can be neither read nor created (a directory, or
\* a file of another user)
Blocked == [kind |-> "blocked", content |-> <<>>]

Regular(c) == [kind |-> "regular", content |-> c]

\* Path::exists
exists(f) == f.kind # "absent"

\* fs::read_to_string(path).ok()
read_to_string(f) == IF f.kind = "regular" THEN Some(f.content) ELSE NoneV

\* a load that falls back to WorkState::default() when the text does not parse
and_then_from_str_or_default(content) ==
  IF ~content.some THEN NoneV
  ELSE IF from_str_work_state(content.v).some THEN from_str_work_state(content.v)
  ELSE Some([saved_at |-> <<>>, trigger |-> <<>>, task_summary |-> <<>>,
             working_files |-> <<>>, notes |-> <<>>, todos |-> <<>>])

\* Option::and_then(|content| serde_json::from_str(&content).ok())
and_then_from_str(content) ==
  IF content.some THEN from_str_work_state(content.v) ELSE NoneV

load_work_state_from_file(f) ==
  IF ~exists(f) THEN NoneV ELSE and_then_from_str(read_to_string(f))

\* an open that keeps what a regular file holds
open_keeping(f) == IF f.kind = "regular" THEN f ELSE [kind |-> "regular", content |-> <<>>]

\* fs::File::create: the file exists, empty, afterwards
FileCreate(f) == Regular(<<>>)

\* a write of `bytes` at offset o of a file opened without O_APPEND
\* (a gap between the end of the file and the offset reads as NUL)
WriteAt(c, o, bytes) ==
  [i \in 1..(IF o + Len(bytes) > Len(c) THEN o + Len(bytes) ELSE Len(c)) |->
     IF i > o /\ i <= o + Len(bytes) THEN bytes[i - o]
     ELSE IF i <= Len(c) THEN c[i] ELSE "NUL"]

\* the I/O faults of one save: none, create_dir_all fails, File::create fails,
\* write_all fails after n tokens
NoFault == [at |-> "none", n |-> 0]

Faults ==
  {NoFault, [at |-> "dir", n |-> 0], [at |-> "create", n |-> 0]}
  \cup {[at |-> "write", n |-> k] : k \in 0..MaxCut}

\* save_work_state_to_file under fault ft: the io::Result and the file afterwards
write_json(f, json, ft) ==
  IF ft.at = "dir" THEN [res |-> "Err", file |-> f]
  ELSE IF ft.at = "create" \/ f.kind = "blocked" THEN [res |-> "Err", file |-> f]
  ELSE IF ft.at = "write" /\ ft.n < Len(json)
       THEN [res |-> "Err",
             file |-> Regular(WriteAt(FileCreate(f).content, 0, SubSeq(json, 1, ft.n)))]
  ELSE [res |-> "Ok", file |-> Regular(WriteAt(FileCreate(f).content, 0, json))]

save_work_state_to_file(f, state, ft) == write_json(f, to_string_pretty(state), ft)

----------------------------------------------------------------------------
(* Configuration (struct Config and its sections; every field optional) *)

\* Config::default()
DefaultConfig ==
  [project |-> NoneV, scripts |-> NoneV, containers |-> NoneV,
   hints |-> NoneV, history |-> NoneV, git |-> NoneV]

unwrap_or(opt, d) == IF opt.some THEN opt.v ELSE d

----------------------------------------------------------------------------
(* The history collector *)

\* the log a configuration without log_file names, and a configured one
DefaultLogPath == "~/.contextkeeper/command-history.jsonl"

CustomLogPath == "custom.jsonl"

LogPaths == {DefaultLogPath, CustomLogPath}

DefaultMaxEntries == 20

\* the default patterns, each one token: lunch\s+\S+, source\s+.*envsetup,
\* export\s+\w+=, m\s+\S+, mm\b, mma\b
default_patterns ==
  << <<"lunch\\s+\\S+">>, <<"source\\s+.*envsetup">>, <<"export\\s+\\w+=">>,
     <<"m\\s+\\S+">>, <<"mm\\b">>, <<"mma\\b">> >>

\* \w of the regex crate, over the characters of the model
WordChars == {"a", "l", "m", "s", "x"}

\* the literal lit occurs in c at position i
LitAt(c, i, lit) ==
  i >= 1 /\ i + Len(lit) - 1 <= Len(c) /\ SubSeq(c, i, i + Len(lit) - 1) = lit

\* c[i..j-1] is a non-empty run of white space
SpaceRun(c, i, j) == j > i /\ j - 1 <= Len(c) /\ \A k \in i..(j - 1) : c[k] = " "

\* a word boundary before position i (i may be Len(c)+1), after a word character
BoundaryAfterWord(c, i) == i > Len(c) \/ c[i] \notin WordChars

\* Regex::new(p).ok(): of the patterns of the model, an unclosed group does
\* not compile
Regex_new(p) == IF p = <<"(">> THEN NoneV ELSE Some(p)

\* Regex::is_match: an unanchored search.  A pattern that is none of the
\* default ones is a literal.
is_match(re, c) ==
  CASE re = <<"lunch\\s+\\S+">> ->
         \E i \in 1..Len(c) :
           /\ LitAt(c, i, <<"l", "u", "n", "c", "h">>)
           /\ \E j \in 1..Len(c) : SpaceRun(c, i + 5, j) /\ c[j] # " "
    [] re = <<"source\\s+.*envsetup">> ->
         \E i \in 1..Len(c) :
           /\ LitAt(c, i, <<"s", "o", "u", "r", "c", "e">>)
           /\ \E j \in 1..Len(c) :
                /\ SpaceRun(c, i + 6, j)
                /\ \E k \in j..Len(c) :
                     LitAt(c, k, <<"e", "n", "v", "s", "e", "t", "u", "p">>)
    [] re = <<"export\\s+\\w+=">> ->
         \E i \in 1..Len(c) :
           /\ LitAt(c, i, <<"e", "x", "p", "o", "r", "t">>)
           /\ \E j \in 1..Len(c) :
                /\ SpaceRun(c, i + 6, j)
                /\ \E k \in (j + 1)..Len(c) :
                     (\A n \in j..(k - 1) : c[n] \in WordChars) /\ c[k] = "="
    [] re = <<"m\\s+\\S+">> ->
         \E i \in 1..Len(c) :
           /\ c[i] = "m"
           /\ \E j \in 1..Len(c) : SpaceRun(c, i + 1, j) /\ c[j] # " "
    [] re = <<"mm\\b">> ->
         \E i \in 1..Len(c) : LitAt(c, i, <<"m", "m">>) /\ BoundaryAfterWord(c, i + 2)
    [] re = <<"mma\\b">> ->
         \E i \in 1..Len(c) : LitAt(c, i, <<"m", "m", "a">>) /\ BoundaryAfterWord(c, i + 3)
    [] OTHER -> \E i \in 1..(Len(c) + 1) : LitAt(c, i, re)

\* patterns.iter().filter_map(|p| Regex::new(p).ok()).collect()
RECURSIVE compile_patterns(_)
compile_patterns(ps) ==
  IF ps = <<>> THEN <<>>
  ELSE (IF Regex_new(Head(ps)).some THEN <<Head(ps)>> ELSE <<>>)
       \o compile_patterns(Tail(ps))

\* A line of the log: bytes that are not UTF-8, text that is not JSON, or a JSON
\* value whose "command" and "timestamp" are strings or missing
BadUtf8 == [kind |-> "undecodable", command |-> NoneV, timestamp |-> NoneV]

NotJson == [kind |-> "malformed", command |-> NoneV, timestamp |-> NoneV]

JsonLine(c, ts) == [kind |-> "json", command |-> c, timestamp |-> ts]

\* reader.lines().map_while(Result::ok): the lines up to the first one that
\* does not decode
RECURSIVE map_while_ok(_)
map_while_ok(lines) ==
  IF lines = <<>> \/ Head(lines).kind = "undecodable" THEN <<>>
  ELSE <<Head(lines)>> \o map_while_ok(Tail(lines))

\* the body of the loop over the lines: the entry a line contributes, if any
history_entry(line, compiled) ==
  IF line.kind # "json" THEN <<>>
  ELSE LET command == unwrap_or(line.command, <<>>)
           matches_pattern ==
             compiled = <<>> \/ \E i \in 1..Len(compiled) : is_match(compiled[i], command)
       IN IF matches_pattern /\ command # <<>>
          THEN << [timestamp |-> unwrap_or(line.timestamp, <<>>), command |-> command] >>
          ELSE <<>>

RECURSIVE history_entries(_, _)
history_entries(lines, compiled) ==
  IF lines = <<>> THEN <<>>
  ELSE history_entry(Head(lines), compiled) \o history_entries(Tail(lines), compiled)

\* entries.drain(0..entries.len() - max_entries) when entries.len() > max_entries
drain_front(entries, max_entries) ==
  IF Len(entries) > max_entries
  THEN SubSeq(entries, Len(entries) - max_entries + 1, Len(entries))
  ELSE entries

\* the log files: absent, not openable, or a sequence of lines
NoLog == [kind |-> "absent", lines |-> <<>>]

LockedLog == [kind |-> "blocked", lines |-> <<>>]

collect_command_history(config, logs) ==
  IF ~config.history.some \/ ~unwrap_or(config.history.v.enabled, TRUE) THEN <<>>
  ELSE LET history_config == config.history.v
           log_file == unwrap_or(history_config.log_file, DefaultLogPath)
           max_entries == unwrap_or(history_config.max_entries, DefaultMaxEntries)
           patterns == unwrap_or(history_config.patterns, default_patterns)
           compiled_patterns == compile_patterns(patterns)
           f == logs[log_file]
       IN IF f.kind = "absent" THEN <<>>
          ELSE IF f.kind # "regular" THEN <<>>
          ELSE drain_front(history_entries(map_while_ok(f.lines), compiled_patterns),
                           max_entries)

----------------------------------------------------------------------------
(* The repository locator and the git status collector *)

DefaultScanDepth == 2

RepoCap == 10

CommitMax == 50

CommitKeep == 47

\* The directories under the working directory, each the sequence of its
\* names from the working directory (<<>> is the working directory itself)
TreeDirs ==
  { <<>>, <<"a">>, <<"a", "b">>, <<"a", "b", "c">>, <<"b">>,
    <<"out">>, <<".x">> }

\* the directories whose read_dir may fail
Lockable == { <<"a">> }

\* the tokens of path strings, in the byte order of the strings they stand for
TokenOrder == <<".", ".x", "/", "a", "b", "c", "cwd", "out", "zz">>

TokenRank(t) == CHOOSE i \in 1..Len(TokenOrder) : TokenOrder[i] = t

\* str::cmp of two path strings
RECURSIVE StrLess(_, _)
StrLess(x, y) ==
  IF y = <<>> THEN FALSE
  ELSE IF x = <<>> THEN TRUE
  ELSE IF Head(x) = Head(y) THEN StrLess(Tail(x), Tail(y))
  ELSE TokenRank(Head(x)) < TokenRank(Head(y))

\* the string of a relative path: its names joined by the separator
RECURSIVE PathString(_)
PathString(d) ==
  IF d = <<>> THEN <<>>
  ELSE IF Len(d) = 1 THEN <<d[1]>>
  ELSE <<Head(d), "/">> \o PathString(Tail(d))

\* std::env::current_dir()
CwdString == <<"/", "cwd">>

is_absolute(p) == p # <<>> /\ p[1] = "/"

\* the directory a full path names, if it is under the working directory
DirOf(full) ==
  LET names == SelectSeq(full, LAMBDA t : t # "/")
  IN IF is_absolute(full) /\ names # <<>> /\ names[1] = "cwd"
     THEN Some(Tail(names)) ELSE NoneV

\* git -C path rev-parse --is-inside-work-tree succeeds: git runs, the path is
\* a directory, and it or a directory above it holds a .git entry
is_inside_work_tree(full, tr, git) ==
  LET d == DirOf(full)
  IN git /\ d.some /\ d.v \in TreeDirs
     /\ \E k \in 0..Len(d.v) : SubSeq(d.v, 1, k) \in tr.markers

\* the bytes of a string: the characters outside ASCII take more than one
ByteWidth(ch) == IF ch = "U+00E9" THEN 2 ELSE 1

RECURSIVE ByteLen(_)
ByteLen(s) == IF s = <<>> THEN 0 ELSE ByteWidth(Head(s)) + ByteLen(Tail(s))

starts_with(s, prefix) == Len(s) >= Len(prefix) /\ SubSeq(s, 1, Len(prefix)) = prefix

\* the loop over the lines of git status --porcelain
RECURSIVE count_status(_, _)
count_status(lines, info) ==
  IF lines = <<>> THEN info
  ELSE LET line == Head(lines)
           next ==
             IF starts_with(line, <<" ", "M">>) \/ starts_with(line, <<"M", " ">>)
                \/ starts_with(line, <<"M", "M">>)
             THEN [info EXCEPT !.modified_files = @ + 1]
             ELSE IF starts_with(line, <<"?", "?">>)
             THEN [info EXCEPT !.untracked_files = @ + 1]
             ELSE IF \E i \in 1..Len(line) : line[i] # " "
             THEN [info EXCEPT !.modified_files = @ + 1]
             ELSE info
       IN count_status(Tail(lines), next)

\* what git answers to the sub-queries of one collection: each one fails
\* (NoneV) or succeeds with its trimmed output
GitAllFail == [branch |-> NoneV, describe |-> NoneV, status |-> NoneV, logline |-> NoneV]

GitTypical ==
  [branch |-> Some(<<"m">>), describe |-> Some(<<"v">>),
   status |-> Some(<< <<" ", "M", " ", "f">>, <<"?", "?", " ", "g">> >>),
   logline |-> Some(<<"h", " ", "s">>)]

GitAnswers == {GitAllFail, GitTypical}

\* GitInfo::default() with repo_path set
NewGitInfo(repo_path) ==
  [repo_path |-> repo_path, branch |-> <<>>, is_dirty |-> FALSE,
   modified_files |-> 0, untracked_files |-> 0, last_commit_short |-> <<>>]

\* a status step that looks at the modified files only
with_status_modified_only(info, status) ==
  IF status.some
  THEN [count_status(status.v, info) EXCEPT
          !.is_dirty = count_status(status.v, info).modified_files > 0]
  ELSE info

\* the status sub-query of collect_git_info_for_path: the counts and is_dirty
with_status(info, status) ==
  IF status.some
  THEN LET c == count_status(status.v, info)
       IN [c EXCEPT !.is_dirty = c.modified_files > 0 \/ c.untracked_files > 0]
  ELSE info

collect_git_info_for_path(repo_path, tr, git, q) ==
  IF ~is_inside_work_tree(repo_path, tr, git) THEN NoneV
  ELSE LET i0 == NewGitInfo(repo_path)
           i1 == IF q.branch.some THEN [i0 EXCEPT !.branch = q.branch.v] ELSE i0
           i2 == IF i1.branch = <<>> /\ q.describe.some
                 THEN [i1 EXCEPT !.branch = <<"(">> \o q.describe.v \o <<")">>]
                 ELSE i1
           i3 == with_status(i2, q.status)
           i4 == IF q.logline.some
                 THEN IF ByteLen(q.logline.v) > CommitMax
                      THEN [i3 EXCEPT !.last_commit_short =
                              SubSeq(q.logline.v, 1,
                                     IF Len(q.logline.v) < CommitKeep
                                     THEN Len(q.logline.v) ELSE CommitKeep)
                              \o <<"...">>]
                      ELSE [i3 EXCEPT !.last_commit_short = q.logline.v]
                 ELSE i3
       IN Some(i4)

\* the names find_git_repos_recursive does not descend into
\* the names of the tree that start with a dot
HiddenNames == {".x"}

skipped_name(name) ==
  name \in HiddenNames \/ name = "node_modules" \/ name = "target" \/ name = "out"

\* fs::read_dir(current): the subdirectories, none when the directory is unreadable
read_dir(current, tr) ==
  IF current \in tr.unreadable THEN {}
  ELSE {d \in TreeDirs : Len(d) = Len(current) + 1 /\ SubSeq(d, 1, Len(current)) = current}

\* a search that records every directory with a .git entry down to max_depth
find_every_marker(current, depth, max_depth, tr) ==
  { PathString(d) : d \in {e \in tr.markers : e # <<>> /\ Len(e) <= max_depth} }

\* find_git_repos_recursive: the relative paths pushed below `current`
RECURSIVE find_git_repos_recursive(_, _, _, _)
find_git_repos_recursive(current, depth, max_depth, tr) ==
  IF depth > max_depth THEN {}
  ELSE IF current \in tr.markers
       THEN (IF PathString(current) # <<>> THEN {PathString(current)} ELSE {})
  ELSE UNION { find_git_repos_recursive(d, depth + 1, max_depth, tr) :
               d \in {e \in read_dir(current, tr) : ~skipped_name(e[Len(e)])} }

\* Vec::sort of a set of distinct strings
RECURSIVE SortStrings(_)
SortStrings(S) ==
  IF S = {} THEN <<>>
  ELSE LET m == CHOOSE x \in S : \A y \in S \ {x} : StrLess(x, y)
       IN <<m>> \o SortStrings(S \ {m})

find_git_repos(max_depth, tr) ==
  SortStrings(find_git_repos_recursive(<<>>, 0, max_depth, tr))

\* the loop over paths_to_check
RECURSIVE collect_paths(_, _, _, _)
collect_paths(paths, tr, git, q) ==
  IF paths = <<>> THEN <<>>
  ELSE LET path == Head(paths)
           full_path == IF is_absolute(path) THEN path ELSE CwdString \o <<"/">> \o path
           info == collect_git_info_for_path(full_path, tr, git, q)
       IN (IF info.some THEN << [info.v EXCEPT !.repo_path = path] >> ELSE <<>>)
          \o collect_paths(Tail(paths), tr, git, q)

\* repos.sort_by(|a, b| a.repo_path.cmp(&b.repo_path)): a stable insertion
RECURSIVE sort_by_repo_path(_)
sort_by_repo_path(repos) ==
  IF repos = <<>> THEN <<>>
  ELSE LET r == repos[Len(repos)]
           front == sort_by_repo_path(SubSeq(repos, 1, Len(repos) - 1))
           k == Cardinality({i \in 1..Len(front) : ~StrLess(r.repo_path, front[i].repo_path)})
       IN SubSeq(front, 1, k) \o <<r>> \o SubSeq(front, k + 1, Len(front))

truncate(xs, n) == IF Len(xs) > n THEN SubSeq(xs, 1, n) ELSE xs

\* a collector that looks for repositories itself whenever auto_detect is on
collect_detected_first(config, tr, git, q) ==
  LET auto_detect ==
        IF config.git.some THEN unwrap_or(config.git.v.auto_detect, TRUE) ELSE TRUE
      explicit_paths == IF config.git.some THEN config.git.v.paths ELSE NoneV
      scan_depth ==
        IF config.git.some THEN unwrap_or(config.git.v.scan_depth, DefaultScanDepth)
        ELSE DefaultScanDepth
      paths_to_check ==
        IF auto_detect THEN find_git_repos(scan_depth, tr)
        ELSE IF explicit_paths.some THEN explicit_paths.v
        ELSE <<>>
  IN truncate(sort_by_repo_path(collect_paths(paths_to_check, tr, git, q)), RepoCap)

\* collect_git_repos after the check of the working directory itself
collect_configured_repos(config, tr, git, q) ==
  LET auto_detect ==
        IF config.git.some THEN unwrap_or(config.git.v.auto_detect, TRUE) ELSE TRUE
      explicit_paths == IF config.git.some THEN config.git.v.paths ELSE NoneV
      scan_depth ==
        IF config.git.some THEN unwrap_or(config.git.v.scan_depth, DefaultScanDepth)
        ELSE DefaultScanDepth
      paths_to_check ==
        IF explicit_paths.some THEN explicit_paths.v
        ELSE IF auto_detect THEN find_git_repos(scan_depth, tr)
        ELSE <<>>
  IN truncate(sort_by_repo_path(collect_paths(paths_to_check, tr, git, q)), RepoCap)

\* the root of the working directory as one more configured path
root_as_path(root) ==
  IF root.some THEN << [root.v EXCEPT !.repo_path = <<".">>] >> ELSE <<>>

\* a collector that does not stop at the working directory
collect_git_repos_scanning(config, tr, git, q) ==
  root_as_path(collect_git_info_for_path(CwdString, tr, git, q))
  \o collect_configured_repos(config, tr, git, q)

collect_git_repos(config, tr, git, q) ==
  LET root == collect_git_info_for_path(CwdString, tr, git, q)
  IN IF root.some THEN << [root.v EXCEPT !.repo_path = <<".">>] >>
     ELSE collect_configured_repos(config, tr, git, q)

----------------------------------------------------------------------------
(* The context aggregator *)

\* What the collectors outside the core return: the parsed build-target
\* files, the container runtime's listing, the commands of the entry point,
\* the attached devices
NoExternals == [targets |-> <<>>, ps |-> <<>>, commands |-> <<>>, devices |-> <<>>]

SomeExternals ==
  [targets |-> << [name |-> <<"t">>, description |-> <<"d">>, container_name |-> <<"k">>,
                   lunch_target |-> <<"l">>, can_emulator |-> TRUE, can_flash |-> FALSE] >>,
   ps |-> << [name |-> <<"k">>, status |-> <<"U", "p">>] >>,
   commands |-> << <<".", "/", "b", ".", "s", "h", " ", "x">> >>,
   devices |-> << [serial |-> <<"s", "1">>, state |-> <<"device">>, device_type |-> <<"adb">>],
                  [serial |-> <<"s", "2">>, state |-> <<"fastboot">>,
                   device_type |-> <<"fastboot">>] >>]

Externals == {NoExternals, SomeExternals}

collect_build_targets(config, ext) ==
  IF ~config.scripts.some THEN <<>>
  ELSE IF ~config.scripts.v.config_dir.some THEN <<>>
  ELSE ext.targets

collect_containers(config, ext) ==
  LET runtime == IF config.containers.some
                 THEN unwrap_or(config.containers.v.runtime, <<"podman">>)
                 ELSE <<"podman">>
  IN [i \in 1..Len(ext.ps) |->
        [name |-> ext.ps[i].name, status |-> ext.ps[i].status, runtime |-> runtime]]

collect_context(config, ext, logs, tr, git, q, f) ==
  [project_name |-> IF config.project.some THEN unwrap_or(config.project.v.name, <<>>)
                    ELSE <<>>,
   project_type |-> IF config.project.some
                    THEN unwrap_or(config.project.v.project_type, <<>>) ELSE <<>>,
   targets |-> collect_build_targets(config, ext),
   containers |-> collect_containers(config, ext),
   available_commands |-> IF config.scripts.some /\ config.scripts.v.entry_point.some
                          THEN ext.commands ELSE <<>>,
   hints |-> IF config.hints.some THEN unwrap_or(config.hints.v.default, <<>>) ELSE <<>>,
   command_history |-> collect_command_history(config, logs),
   git_repos |-> collect_git_repos(config, tr, git, q),
   adb_devices |-> ext.devices,
   work_state |-> load_work_state_from_file(f)]

----------------------------------------------------------------------------
(* The tiered renderer *)

\* In the literals below an apostrophe stands for the backquote of the source,
\* which a TLA+ string cannot hold.

CmdMax == 80

CmdKeep == 77

RECURSIVE ConcatFrom(_, _)
ConcatFrom(ss, i) == IF i > Len(ss) THEN <<>> ELSE ss[i] \o ConcatFrom(ss, i + 1)

\* the concatenation of a sequence of strings
Concat(ss) == ConcatFrom(ss, 1)

\* [String]::join(sep)
RECURSIVE JoinFrom(_, _, _)
JoinFrom(ss, sep, i) ==
  IF i > Len(ss) THEN <<>>
  ELSE IF i = Len(ss) THEN ss[i]
  ELSE ss[i] \o sep \o JoinFrom(ss, sep, i + 1)

join(ss, sep) == JoinFrom(ss, sep, 1)

\* a status code that always prints both counts
format_git_status_both(g) ==
  IF g.is_dirty
  THEN <<ToString(g.modified_files), "M ", ToString(g.untracked_files), "U">>
  ELSE <<"clean">>

\* format!("{}", n) of a count
Num(n) == <<ToString(n)>>

\* str::replace('|', "\\|")
RECURSIVE escape_pipes(_)
escape_pipes(s) ==
  IF s = <<>> THEN <<>>
  ELSE (IF Head(s) = "|" THEN <<"\\", "|">> ELSE <<Head(s)>>) \o escape_pipes(Tail(s))

format_git_status(g) ==
  IF g.is_dirty
  THEN IF g.modified_files > 0 /\ g.untracked_files > 0
       THEN Num(g.modified_files) \o <<"M ">> \o Num(g.untracked_files) \o <<"U">>
       ELSE IF g.modified_files > 0 THEN Num(g.modified_files) \o <<"M">>
       ELSE Num(g.untracked_files) \o <<"U">>
  ELSE <<"clean">>

checkbox(status) ==
  IF status = <<"completed">> THEN "[x]"
  ELSE IF status = <<"in_progress">> THEN "[>]"
  ELSE "[ ]"

\* a work-state section of the saving time only
format_work_state_bare(ws) ==
  <<"## Saved Work State\n">> \o <<"- **Saved at:** ">> \o ws.saved_at \o <<"\n\n">>

format_work_state(ws) ==
  <<"## Saved Work State\n">>
  \o <<"- **Saved at:** ">> \o ws.saved_at \o <<"\n">>
  \o (IF ws.task_summary # <<>>
      THEN <<"- **Task:** ">> \o ws.task_summary \o <<"\n">> ELSE <<>>)
  \o (IF ws.working_files # <<>>
      THEN <<"- **Working files:**\n">>
           \o Concat([i \in 1..Len(ws.working_files) |->
                        <<"  - ">> \o ws.working_files[i] \o <<"\n">>])
      ELSE <<>>)
  \o (IF ws.notes # <<>> THEN <<"- **Notes:** ">> \o ws.notes \o <<"\n">> ELSE <<>>)
  \o (IF ws.todos # <<>>
      THEN <<"- **Todos:**\n">>
           \o Concat([i \in 1..Len(ws.todos) |->
                        <<"  - ", checkbox(ws.todos[i].status), " ">>
                        \o ws.todos[i].content \o <<"\n">>])
      ELSE <<>>)
  \o <<"\n">>

dirty_repos(ctx) == SelectSeq(ctx.git_repos, LAMBDA r : r.is_dirty)

format_minimal(ctx) ==
  <<"# Context Recovery (Minimal)\n\n">>
  \o (IF ctx.work_state.some
      THEN LET ws == ctx.work_state.v
           IN (IF ws.task_summary # <<>>
               THEN <<"**Task:** ">> \o ws.task_summary \o <<"\n">> ELSE <<>>)
              \o (IF ws.working_files # <<>>
                  THEN <<"**Files:** ">> \o join(ws.working_files, <<", ">>) \o <<"\n">>
                  ELSE <<>>)
              \o (IF ws.notes # <<>>
                  THEN <<"**Notes:** ">> \o ws.notes \o <<"\n">> ELSE <<>>)
              \o <<"\n">>
      ELSE <<>>)
  \o (LET dirty == dirty_repos(ctx)
      IN IF dirty # <<>>
         THEN <<"**Changed repos:** ">>
              \o join([i \in 1..Len(dirty) |->
                         dirty[i].repo_path \o <<" (">> \o format_git_status(dirty[i])
                         \o <<")">>], <<", ">>)
              \o <<"\n">>
         ELSE <<>>)
  \o (IF ctx.adb_devices # <<>>
      THEN <<"**Device:** ">> \o ctx.adb_devices[1].serial \o <<" (">>
           \o ctx.adb_devices[1].device_type \o <<")\n">>
      ELSE <<>>)
  \o <<"\n---\n">>
  \o <<"*Run 'get_dev_context' with level=\"normal\" or \"full\" for more details.*\n">>

format_normal(ctx) ==
  <<"# Development Context\n\n">>
  \o (IF ctx.work_state.some THEN format_work_state(ctx.work_state.v) ELSE <<>>)
  \o (IF ctx.hints # <<>>
      THEN <<"## AI Hints\n">> \o <<"> ">> \o ctx.hints \o <<"\n\n">> ELSE <<>>)
  \o (LET dirty == dirty_repos(ctx)
      IN IF dirty # <<>>
         THEN <<"## Git Status (changes only)\n\n">>
              \o <<"| Repository | Branch | Status |\n">>
              \o <<"|------------|--------|--------|\n">>
              \o Concat([i \in 1..Len(dirty) |->
                           <<"| ">> \o dirty[i].repo_path \o <<" | ">> \o dirty[i].branch
                           \o <<" | ">> \o format_git_status(dirty[i]) \o <<" |\n">>])
              \o <<"\n">>
         ELSE <<>>)
  \o (IF ctx.containers # <<>>
      THEN <<"## Active Containers\n">>
           \o Concat([i \in 1..Len(ctx.containers) |->
                        <<"- ">> \o ctx.containers[i].name \o <<" (">>
                        \o ctx.containers[i].status \o <<")\n">>])
           \o <<"\n">>
      ELSE <<>>)
  \o (IF ctx.adb_devices # <<>>
      THEN <<"## Connected Devices\n">>
           \o Concat([i \in 1..Len(ctx.adb_devices) |->
                        <<"- ">> \o ctx.adb_devices[i].serial \o <<" (">>
                        \o ctx.adb_devices[i].state \o <<", ">>
                        \o ctx.adb_devices[i].device_type \o <<")\n">>])
           \o <<"\n">>
      ELSE <<>>)
  \o <<"---\n">>
  \o <<"*Run 'get_dev_context' with level=\"full\" for complete information.*\n">>

\* the command of a history row: cut to CmdKeep characters and "..." when
\* longer than CmdMax characters
cmd_display(command) ==
  IF Len(command) > CmdMax THEN SubSeq(command, 1, CmdKeep) \o <<"...">> ELSE command

target_caps(t) ==
  (IF t.can_emulator THEN << <<"emulator">> >> ELSE <<>>)
  \o (IF t.can_flash THEN << <<"flash">> >> ELSE <<>>)

format_full(ctx) ==
  <<"# Development Context (Full)\n\n">>
  \o (IF ctx.project_name # <<>>
      THEN <<"## Project\n">> \o <<"- **Name:** ">> \o ctx.project_name \o <<"\n">>
           \o (IF ctx.project_type # <<>>
               THEN <<"- **Type:** ">> \o ctx.project_type \o <<"\n">> ELSE <<>>)
           \o <<"\n">>
      ELSE <<>>)
  \o (IF ctx.work_state.some THEN format_work_state(ctx.work_state.v) ELSE <<>>)
  \o (IF ctx.hints # <<>>
      THEN <<"## AI Hints (Important)\n">> \o <<"> ">> \o ctx.hints \o <<"\n\n">>
      ELSE <<>>)
  \o (IF ctx.targets # <<>>
      THEN <<"## Available Build Targets\n\n">>
           \o <<"| Target | Description | Container | Lunch Target |\n">>
           \o <<"|--------|-------------|-----------|---------------|\n">>
           \o Concat([i \in 1..Len(ctx.targets) |->
                        <<"| ">> \o ctx.targets[i].name \o <<" | ">>
                        \o ctx.targets[i].description \o <<" | ">>
                        \o ctx.targets[i].container_name \o <<" | ">>
                        \o ctx.targets[i].lunch_target \o <<" |\n">>])
           \o <<"\n">>
           \o <<"### Target Capabilities\n">>
           \o Concat([i \in 1..Len(ctx.targets) |->
                        IF target_caps(ctx.targets[i]) # <<>>
                        THEN <<"- **">> \o ctx.targets[i].name \o <<":** ">>
                             \o join(target_caps(ctx.targets[i]), <<", ">>) \o <<"\n">>
                        ELSE <<>>])
           \o <<"\n">>
      ELSE <<>>)
  \o (IF ctx.containers # <<>>
      THEN <<"## Active Containers\n">>
           \o Concat([i \in 1..Len(ctx.containers) |->
                        <<"- **">> \o ctx.containers[i].name \o <<"** (">>
                        \o ctx.containers[i].runtime \o <<"): ">>
                        \o ctx.containers[i].status \o <<"\n">>])
           \o <<"\n">>
      ELSE <<>>)
  \o (IF ctx.available_commands # <<>>
      THEN <<"## Example Commands\n">> \o <<"'''bash\n">>
           \o Concat([i \in 1..Len(ctx.available_commands) |->
                        ctx.available_commands[i] \o <<"\n">>])
           \o <<"'''\n">>
      ELSE <<>>)
  \o (IF ctx.command_history # <<>>
      THEN <<"## Recent Relevant Commands\n">>
           \o <<"These commands were executed in previous sessions (useful after context compression):\n\n">>
           \o <<"| Time | Command |\n">>
           \o <<"|------|--------|\n">>
           \o Concat([i \in 1..Len(ctx.command_history) |->
                        <<"| ">> \o ctx.command_history[i].timestamp \o <<" | '">>
                        \o escape_pipes(cmd_display(ctx.command_history[i].command))
                        \o <<"' |\n">>])
           \o <<"\n">>
      ELSE <<>>)
  \o (IF ctx.git_repos # <<>>
      THEN <<"## Git Status\n\n">>
           \o <<"| Repository | Branch | Status | Last Commit |\n">>
           \o <<"|------------|--------|--------|-------------|\n">>
           \o Concat([i \in 1..Len(ctx.git_repos) |->
                        <<"| ">> \o ctx.git_repos[i].repo_path \o <<" | ">>
                        \o ctx.git_repos[i].branch \o <<" | ">>
                        \o format_git_status(ctx.git_repos[i]) \o <<" | ">>
                        \o escape_pipes(ctx.git_repos[i].last_commit_short) \o <<" |\n">>])
           \o <<"\n">>
      ELSE <<>>)
  \o (IF ctx.adb_devices # <<>>
      THEN <<"## Connected Devices\n">>
           \o <<"| Serial | State | Type |\n">>
           \o <<"|--------|-------|------|\n">>
           \o Concat([i \in 1..Len(ctx.adb_devices) |->
                        <<"| ">> \o ctx.adb_devices[i].serial \o <<" | ">>
                        \o ctx.adb_devices[i].state \o <<" | ">>
                        \o ctx.adb_devices[i].device_type \o <<" |\n">>])
           \o <<"\n">>
      ELSE <<>>)

\* a renderer whose fallback is the minimal level
format_context_markdown_low(ctx, level) ==
  IF level = "normal" THEN format_normal(ctx)
  ELSE IF level = "full" THEN format_full(ctx)
  ELSE format_minimal(ctx)

format_context_markdown(ctx, level) ==
  IF level = "minimal" THEN format_minimal(ctx)
  ELSE IF level = "normal" THEN format_normal(ctx)
  ELSE IF level = "full" THEN format_full(ctx)
  ELSE format_normal(ctx)

----------------------------------------------------------------------------
(* The configuration reader *)

\* a configuration file: absent, not readable, not valid TOML, or a Config
NoFile == [kind |-> "absent", config |-> DefaultConfig]

ConfigFile(c) == [kind |-> "config", config |-> c]

\* read_config over contextkeeper.toml, context-keeper.toml, .contextkeeper.toml,
\* from the i-th on: the first file that exists, reads and parses
RECURSIVE read_config_from(_, _)
read_config_from(files, i) ==
  IF i > Len(files) THEN DefaultConfig
  ELSE IF files[i].kind = "config" THEN files[i].config
  ELSE read_config_from(files, i + 1)

read_config(files) == read_config_from(files, 1)

----------------------------------------------------------------------------
(* The operations *)

\* chrono::Utc::now().to_rfc3339()
to_rfc3339(now) == <<"T", ToString(now)>>

\* the WorkState the save_work_state tool builds from its parameters
tool_work_state(params, auto_files, now) ==
  [saved_at |-> to_rfc3339(now),
   trigger |-> <<"manual">>,
   task_summary |-> params.task_summary,
   working_files |-> unwrap_or(params.working_files, auto_files),
   notes |-> unwrap_or(params.notes, <<>>),
   todos |-> IF params.todos.some
             THEN unwrap_or(from_str_todos(params.todos.v), <<>>) ELSE <<>>]

\* the WorkState of the --save-state mode
hook_work_state(task_summary, auto_files, now) ==
  [saved_at |-> to_rfc3339(now),
   trigger |-> <<"pre_compact">>,
   task_summary |-> unwrap_or(task_summary, <<>>),
   working_files |-> auto_files,
   notes |-> <<>>,
   todos |-> <<>>]

\* the text of a successful save
save_success_text(state) ==
  <<"Work state saved successfully.\n\n- Task: ">> \o state.task_summary
  \o <<"\n- Files: ">> \o Num(Len(state.working_files))
  \o <<"\n- Todos: ">> \o Num(Len(state.todos))
  \o <<" items\n\nThis state will be included in 'get_dev_context' output after compression.">>

\* the text of a failed save: the prefix and the io::Error's message
save_failure_text == <<"Failed to save work state: ", "io::Error">>

\* a save_work_state that hands the io::Error on as the operation's error
save_work_state_result_raising(res, state) ==
  IF res = "Ok" THEN [is_error |-> FALSE, text |-> save_success_text(state)]
  ELSE [is_error |-> TRUE, text |-> save_failure_text]

\* Result<CallToolResult, McpError>: Ok(CallToolResult::success(text)) is
\* [is_error |-> FALSE], an Err would be [is_error |-> TRUE]
save_work_state_result(res, state) ==
  IF res = "Ok"
  THEN [is_error |-> FALSE, text |-> save_success_text(state)]
  ELSE [is_error |-> FALSE, text |-> save_failure_text]

----------------------------------------------------------------------------
(* The inputs of the model *)

Summaries == { <<>>, <<"a", "\"", "\\">> }

FileParams == { NoneV, Some(<< <<"f">>, <<"f">> >>) }

\* what collect_working_files finds in the working directory
AutoFiles == { <<>> }

NoteParams == { NoneV, Some(<<"n">>) }

TodoParams ==
  { NoneV, Some(<<"x">>),
    Some(JsonTodoArray(<< [content |-> <<"c">>, status |-> <<"pending">>] >>)) }

ToolParams ==
  [task_summary : Summaries, working_files : FileParams, notes : NoteParams,
   todos : TodoParams]

\* the level parameter of get_dev_context: missing, the three levels, another string
LevelParams ==
  { NoneV, Some("minimal"), Some("normal"), Some("full"), Some("FULL"), Some("") }

\* what the work-state file holds before the first save: nothing, an entry
\* that cannot be opened, text that is not a WorkState
InitFiles == { Absent, Blocked, Regular(<<"{">>), Regular(<<"{", "}">>) }

\* the configuration of the working directory in the runs of the store
StoreConfig ==
  [project |-> Some([name |-> Some(<<"p">>), project_type |-> NoneV]),
   scripts |-> Some([entry_point |-> Some(<<"e">>), config_dir |-> Some(<<"d">>),
                     config_pattern |-> NoneV]),
   containers |-> NoneV,
   hints |-> Some([default |-> Some(<<"h">>)]),
   history |-> Some([enabled |-> NoneV, log_file |-> NoneV, patterns |-> NoneV,
                     max_entries |-> NoneV]),
   git |-> NoneV]

StoreLog ==
  [p \in LogPaths |->
     IF p = DefaultLogPath
     THEN [kind |-> "regular", lines |-> << JsonLine(Some(<<"m", "m">>), Some(<<"t1">>)) >>]
     ELSE NoLog]

StoreTree == [markers |-> { <<"a">> }, unreadable |-> {}]

----------------------------------------------------------------------------
(* State *)

NoSave == [op |-> "none", ok |-> FALSE, state |-> NoneV]

Procs == {1, 2}

IdleStore ==
  /\ lastSave = NoSave
  /\ result = NoneV
  /\ shown = NoneV

IdleRace ==
  /\ pc = [p \in Procs |-> "idle"]
  /\ arg = [p \in Procs |-> NoneV]
  /\ off = [p \in Procs |-> 0]
  /\ loaded = NoneV

IdleCollectors ==
  /\ hist = NoneV
  /\ found = NoneV

Init ==
  /\ file \in InitFiles
  /\ clock = 0
  /\ cfgFiles = << ConfigFile(StoreConfig), NoFile, NoFile >>
  /\ log = StoreLog
  /\ tree = StoreTree
  /\ gitOK = TRUE
  /\ IdleStore
  /\ IdleRace
  /\ IdleCollectors

----------------------------------------------------------------------------
(* The operations of one invocation, each a whole handler *)

\* what a save leaves: the file, the clock read, the record of the attempt
Saved(op, state, now, r) ==
  /\ file' = r.file
  /\ clock' = now
  /\ lastSave' = [op |-> op, ok |-> r.res = "Ok",
                  state |-> IF r.res = "Ok" THEN Some(state) ELSE NoneV]
  /\ result' = IF op = "tool" THEN Some(save_work_state_result(r.res, state)) ELSE NoneV
  /\ shown' = NoneV
  /\ UNCHANGED <<cfgFiles, log, tree, gitOK, pc, arg, off, loaded, hist, found>>

SaveState(op, state, now, ft) ==
  Saved(op, state, now, save_work_state_to_file(file, state, ft))

\* the save_work_state tool
SaveWorkState(params, auto_files, now, ft) ==
  SaveState("tool", tool_work_state(params, auto_files, now), now, ft)

\* main with --save-state (the PreCompact hook)
SaveStateHook(task_summary, auto_files, now, ft) ==
  SaveState("hook", hook_work_state(task_summary, auto_files, now), now, ft)

Rendered(level_str, ext, q, context) ==
  /\ shown' = Some([level |-> level_str, ext |-> ext, q |-> q, ctx |-> context,
                    is_error |-> FALSE, via |-> "tool",
                    markdown |-> format_context_markdown(context, level_str)])
  /\ result' = NoneV
  /\ UNCHANGED <<file, clock, cfgFiles, log, tree, gitOK, lastSave,
                 pc, arg, off, loaded, hist, found>>

\* the get_dev_context tool
GetDevContext(level, ext, q) ==
  Rendered(unwrap_or(level, "normal"), ext, q,
           collect_context(read_config(cfgFiles), ext, log, tree, gitOK, q, file))

\* a --context mode that clears the saved state once it has shown it
Printed_clearing(level, ext, q, context) ==
  /\ shown' = Some([level |-> level, ext |-> ext, q |-> q, ctx |-> context,
                    is_error |-> FALSE, via |-> "cli",
                    markdown |-> format_context_markdown(context, level)])
  /\ result' = NoneV
  /\ file' = Absent
  /\ UNCHANGED <<clock, cfgFiles, log, tree, gitOK, lastSave,
                 pc, arg, off, loaded, hist, found>>

\* what main prints in --context mode
Printed(level, ext, q, context) ==
  /\ shown' = Some([level |-> level, ext |-> ext, q |-> q, ctx |-> context,
                    is_error |-> FALSE, via |-> "cli",
                    markdown |-> format_context_markdown(context, level)])
  /\ result' = NoneV
  /\ UNCHANGED <<file, clock, cfgFiles, log, tree, gitOK, lastSave,
                 pc, arg, off, loaded, hist, found>>

\* main with --context [level]
CliContext(level, ext, q) ==
  Printed(unwrap_or(level, "normal"), ext, q,
          collect_context(read_config(cfgFiles), ext, log, tree, gitOK, q, file))

Next ==
  \/ \E params \in ToolParams, auto \in AutoFiles, now \in clock..MaxClock, ft \in Faults :
       SaveWorkState(params, auto, now, ft)
  \/ \E task \in {NoneV} \cup {Some(t) : t \in Summaries}, auto \in AutoFiles,
        now \in clock..MaxClock, ft \in Faults :
       SaveStateHook(task, auto, now, ft)
  \/ \E level \in LevelParams, ext \in Externals :
       GetDevContext(level, ext, GitTypical)
  \/ \E level \in {NoneV, Some("")} : CliContext(level, SomeExternals, GitTypical)

Spec == Init /\ [][Next]_vars

----------------------------------------------------------------------------
(* The todos text of save_work_state: whatever the caller sends *)

\* one todo of each status the struct's comment names
TodoOfEach ==
  << [content |-> <<"c">>, status |-> <<"pending">>],
     [content |-> <<"d">>, status |-> <<"in_progress">>],
     [content |-> <<"e">>, status |-> <<"completed">>] >>

\* the todos parameter: missing, not JSON, an empty array, arrays of todos
\* whose status is one of the three, another word, or empty
TodoTexts ==
  { NoneV, Some(<<"x">>), Some(JsonTodoArray(<<>>)),
    Some(JsonTodoArray(TodoOfEach)),
    Some(JsonTodoArray(<< [content |-> <<"c">>, status |-> <<"done">>] >>)),
    Some(JsonTodoArray(<< [content |-> <<"c">>, status |-> <<"pending">>],
                          [content |-> <<"d">>, status |-> <<>>] >>)) }

TodoToolParams ==
  [task_summary : Summaries, working_files : {NoneV}, notes : NoteParams,
   todos : TodoTexts]

NextTodos ==
  \/ \E params \in TodoToolParams, now \in clock..MaxClock, ft \in Faults :
       SaveWorkState(params, <<>>, now, ft)
  \/ \E task \in {NoneV, Some(<<"a">>)}, now \in clock..MaxClock, ft \in Faults :
       SaveStateHook(task, <<>>, now, ft)

SpecTodos == Init /\ [][NextTodos]_vars

----------------------------------------------------------------------------
(* The configuration files of the working directory *)

\* a file that exists and whose read_to_string fails
UnreadableFile == [kind |-> "unreadable", config |-> DefaultConfig]

\* a file that reads and that toml::from_str rejects
InvalidFile == [kind |-> "invalid", config |-> DefaultConfig]

\* a configuration that gives the hints section and nothing else
HintsOnly == [DefaultConfig EXCEPT !.hints = Some([default |-> Some(<<"h">>)])]

\* what one of the three filenames may hold: nothing, an unusable file, an
\* empty file, a file with some of the fields, a file with most of them
ConfigFiles ==
  { NoFile, UnreadableFile, InvalidFile, ConfigFile(DefaultConfig),
    ConfigFile(HintsOnly), ConfigFile(StoreConfig) }

InitConfig ==
  /\ file = Absent
  /\ clock = 0
  /\ cfgFiles = << NoFile, NoFile, NoFile >>
  /\ log = StoreLog
  /\ tree = StoreTree
  /\ gitOK = TRUE
  /\ IdleStore
  /\ IdleRace
  /\ IdleCollectors

\* the user puts, replaces or removes the i-th of the three files
PutConfigFile(i, f) ==
  /\ cfgFiles[i] # f
  /\ cfgFiles' = [cfgFiles EXCEPT ![i] = f]
  /\ found' = NoneV
  /\ UNCHANGED <<file, clock, log, tree, gitOK, lastSave, result, shown,
                 pc, arg, off, loaded, hist>>

\* an invocation reads its configuration
ReadConfig ==
  /\ found' = Some([op |-> "config", config |-> read_config(cfgFiles)])
  /\ UNCHANGED <<file, clock, cfgFiles, log, tree, gitOK, lastSave, result, shown,
                 pc, arg, off, loaded, hist>>

NextConfig ==
  \/ \E i \in 1..3, f \in ConfigFiles : PutConfigFile(i, f)
  \/ ReadConfig

SpecConfig == InitConfig /\ [][NextConfig]_vars

----------------------------------------------------------------------------
(* Two invocations saving at once: save_work_state_to_file step by step *)

\* the parameters of the racing saves: two of equal length, one longer
RaceParams ==
  { [task_summary |-> <<"a">>, working_files |-> Some(<<>>), notes |-> Some(<<"n">>),
     todos |-> NoneV],
    [task_summary |-> <<"b">>, working_files |-> Some(<<>>), notes |-> Some(<<"m">>),
     todos |-> NoneV],
    [task_summary |-> <<"a", "a">>, working_files |-> Some(<< <<"f">> >>),
     notes |-> NoneV, todos |-> NoneV] }

\* the sizes one write call may take of the content left from offset o:
\* all of it, or, at the start, half of the content
WriteSizes(json, o) ==
  {Len(json) - o} \cup (IF o = 0 THEN {Len(json) \div 2} ELSE {})

InitRace ==
  /\ file = Absent
  /\ clock = 0
  /\ cfgFiles = << NoFile, NoFile, NoFile >>
  /\ log = StoreLog
  /\ tree = StoreTree
  /\ gitOK = TRUE
  /\ IdleStore
  /\ IdleRace
  /\ IdleCollectors

RaceFrame == UNCHANGED <<clock, cfgFiles, log, tree, gitOK, lastSave, result, shown, hist, found>>

\* an invocation enters save_work_state_to_file with its WorkState
Begin(p, params) ==
  /\ pc[p] = "idle"
  /\ pc' = [pc EXCEPT ![p] = "mkdir"]
  /\ arg' = [arg EXCEPT ![p] = Some(tool_work_state(params, <<>>, clock))]
  /\ UNCHANGED <<file, off, loaded>>
  /\ RaceFrame

\* ensure_contextkeeper_dir()?
EnsureDir(p) ==
  /\ pc[p] = "mkdir"
  /\ pc' = [pc EXCEPT ![p] = "create"]
  /\ UNCHANGED <<file, arg, off, loaded>>
  /\ RaceFrame

\* fs::File::create(&path)?
Create(p) ==
  /\ pc[p] = "create"
  /\ file.kind # "blocked"
  /\ file' = FileCreate(file)
  /\ off' = [off EXCEPT ![p] = 0]
  /\ pc' = [pc EXCEPT ![p] = "write"]
  /\ UNCHANGED <<arg, loaded>>
  /\ RaceFrame

Wrote(p, json, n) ==
  /\ file' = Regular(WriteAt(file.content, off[p], SubSeq(json, off[p] + 1, off[p] + n)))
  /\ off' = [off EXCEPT ![p] = @ + n]
  /\ pc' = [pc EXCEPT ![p] = IF off[p] + n = Len(json) THEN "done" ELSE "write"]
  /\ UNCHANGED <<arg, loaded>>
  /\ RaceFrame

\* one write call of file.write_all(json.as_bytes())?
Write(p) ==
  /\ pc[p] = "write"
  /\ \E n \in WriteSizes(to_string_pretty(arg[p].v), off[p]) :
       Wrote(p, to_string_pretty(arg[p].v), n)

\* any of the three steps returns an io::Error
IoFail(p) ==
  /\ pc[p] \in {"mkdir", "create", "write"}
  /\ pc' = [pc EXCEPT ![p] = "failed"]
  /\ UNCHANGED <<file, arg, off, loaded>>
  /\ RaceFrame

\* a third invocation loads the work state
Load ==
  /\ loaded' = Some(load_work_state_from_file(file))
  /\ UNCHANGED <<file, pc, arg, off>>
  /\ RaceFrame

NextRace ==
  \/ \E p \in Procs, params \in RaceParams : Begin(p, params)
  \/ \E p \in Procs : EnsureDir(p)
  \/ \E p \in Procs : Create(p)
  \/ \E p \in Procs : Write(p)
  \/ \E p \in Procs : IoFail(p)
  \/ Load

SpecRace == InitRace /\ [][NextRace]_vars

----------------------------------------------------------------------------
(* The history collector over a growing log *)

\* the longest log of the model, over both log files
MaxLines == 2

\* the largest configured max_entries
MaxEntries == 1

LogLines ==
  { BadUtf8, NotJson,
    JsonLine(NoneV, Some(<<"t0">>)),
    JsonLine(Some(<<"l", "s">>), Some(<<"t1">>)),
    JsonLine(Some(<<"m", "m">>), NoneV) }

PatternParams ==
  { NoneV, Some(<<>>), Some(<< <<"l", "s">> >>), Some(<< <<"(">> >>) }

HistoryConfigs ==
  {NoneV} \cup
  { Some(h) : h \in [enabled : {NoneV, Some(TRUE), Some(FALSE)},
                     log_file : {NoneV, Some(CustomLogPath)},
                     patterns : PatternParams,
                     max_entries : {NoneV} \cup {Some(n) : n \in 0..MaxEntries}] }

InitHist ==
  /\ file = Absent
  /\ clock = 0
  /\ cfgFiles = << NoFile, NoFile, NoFile >>
  /\ log \in {[p \in LogPaths |-> NoLog],
              [p \in LogPaths |-> IF p = DefaultLogPath THEN LockedLog ELSE NoLog]}
  /\ tree = StoreTree
  /\ gitOK = TRUE
  /\ IdleStore
  /\ IdleRace
  /\ IdleCollectors

HistFrame ==
  UNCHANGED <<file, clock, cfgFiles, tree, gitOK, lastSave, result, shown,
              pc, arg, off, loaded, found>>

\* the shell hook appends a line to a log
AppendLine(path, line) ==
  /\ log[path].kind # "blocked"
  /\ Len(log[DefaultLogPath].lines) + Len(log[CustomLogPath].lines) < MaxLines
  /\ log' = [log EXCEPT ![path] = [kind |-> "regular", lines |-> Append(@.lines, line)]]
  /\ hist' = NoneV
  /\ HistFrame

\* collect_command_history(&config)
CollectHistory(h) ==
  /\ hist' = Some([history |-> h,
                   entries |-> collect_command_history(
                                 [DefaultConfig EXCEPT !.history = h], log)])
  /\ log' = log
  /\ HistFrame

NextHist ==
  \/ \E path \in LogPaths, line \in LogLines : AppendLine(path, line)
  \/ \E h \in HistoryConfigs : CollectHistory(h)

SpecHist == InitHist /\ [][NextHist]_vars

----------------------------------------------------------------------------
(* Repository discovery over a tree that changes *)

\* the largest configured scan_depth, and the largest max_depth asked of find_git_repos
MaxScanDepth == 2

\* the most directories of the tree that hold a .git entry
MaxRepos == 2

\* n times the element x
RECURSIVE Repeat(_, _)
Repeat(x, n) == IF n = 0 THEN <<>> ELSE <<x>> \o Repeat(x, n - 1)

\* git.paths: not given, empty, one path, a list with a missing directory
\* and a path given twice, a list of one path more than the cap
PathParams ==
  { NoneV, Some(<<>>), Some(<< <<"a">> >>),
    Some(<< <<"b">>, <<"a", "/", "b">>, <<"zz">>, <<"b">> >>),
    Some(<< <<"b">>, CwdString \o <<"/", "a">> >> \o Repeat(<<"a">>, RepoCap - 1)) }

GitConfigs ==
  {NoneV} \cup
  { Some(g) : g \in [paths : PathParams,
                     auto_detect : {NoneV, Some(TRUE), Some(FALSE)},
                     scan_depth : {NoneV} \cup {Some(n) : n \in 0..MaxScanDepth}] }

InitGit ==
  /\ file = Absent
  /\ clock = 0
  /\ cfgFiles = << NoFile, NoFile, NoFile >>
  /\ log = StoreLog
  /\ tree = [markers |-> {}, unreadable |-> {}]
  /\ gitOK \in BOOLEAN
  /\ IdleStore
  /\ IdleRace
  /\ IdleCollectors

GitFrame ==
  UNCHANGED <<file, clock, cfgFiles, log, gitOK, lastSave, result, shown,
              pc, arg, off, loaded, hist>>

\* git init in a directory of the tree
GitInit(d) ==
  /\ d \notin tree.markers
  /\ Cardinality(tree.markers) < MaxRepos
  /\ tree' = [tree EXCEPT !.markers = @ \cup {d}]
  /\ found' = NoneV
  /\ GitFrame

\* a directory loses its read permission
Lock(d) ==
  /\ d \notin tree.unreadable
  /\ tree' = [tree EXCEPT !.unreadable = @ \cup {d}]
  /\ found' = NoneV
  /\ GitFrame

\* find_git_repos(&cwd, max_depth)
FindGitRepos(max_depth) ==
  /\ found' = Some([op |-> "find", max_depth |-> max_depth,
                    paths |-> find_git_repos(max_depth, tree)])
  /\ tree' = tree
  /\ GitFrame

\* collect_git_repos(&config)
CollectGitRepos(g, q) ==
  /\ found' = Some([op |-> "collect", git |-> g, q |-> q,
                    repos |-> collect_git_repos([DefaultConfig EXCEPT !.git = g],
                                                tree, gitOK, q)])
  /\ tree' = tree
  /\ GitFrame

NextGit ==
  \/ \E d \in TreeDirs : GitInit(d)
  \/ \E d \in Lockable : Lock(d)
  \/ \E n \in 0..(MaxScanDepth + 1) : FindGitRepos(n)
  \/ \E g \in GitConfigs : CollectGitRepos(g, GitTypical)

SpecGit == InitGit /\ [][NextGit]_vars

----------------------------------------------------------------------------
(* The git status collector over the answers git can give *)

BranchAnswers == { NoneV, Some(<<>>), Some(<<"m">>), Some(<<"x", "|", "y">>) }

DescribeAnswers == { NoneV, Some(<<"v">>) }

\* git status --porcelain: fails, prints nothing, or prints lines
StatusAnswers ==
  { NoneV, Some(<<>>),
    Some(<< <<" ", "M", " ", "f">> >>),
    Some(<< <<"?", "?", " ", "g">> >>),
    Some(<< <<"M", "M", " ", "f">>, <<"?", "?", " ", "g">> >>),
    Some(<< <<"A", " ", " ", "f">>, <<"M", " ", " ", "g">>, <<"?", "?", " ", "h">>,
            <<"?", "?", " ", "i">>, <<"?", "?", " ", "j">> >>) }

\* git log -1 --format=%h %s: fails, or prints a line: a short one, one with
\* a pipe, lines of CommitMax and CommitMax + 1 characters, and lines of no
\* more than CommitMax characters of which one takes two bytes
LogAnswers ==
  { NoneV,
    Some(<<"h", " ", "s">>),
    Some(<<"h", " ", "|">>),
    Some(Repeat("s", CommitMax)),
    Some(Repeat("s", CommitMax + 1)),
    Some(<<"U+00E9">> \o Repeat("s", CommitMax - 1)),
    Some(<<"U+00E9">> \o Repeat("s", CommitKeep)) }

InfoAnswers ==
  [branch : BranchAnswers, describe : DescribeAnswers, status : StatusAnswers,
   logline : LogAnswers]

InitInfo ==
  /\ file = Absent
  /\ clock = 0
  /\ cfgFiles = << NoFile, NoFile, NoFile >>
  /\ log = StoreLog
  /\ tree \in {[markers |-> {}, unreadable |-> {}], [markers |-> {<<"a">>}, unreadable |-> {}]}
  /\ gitOK \in BOOLEAN
  /\ IdleStore
  /\ IdleRace
  /\ IdleCollectors

\* collect_git_info_for_path(repo_path)
CollectGitInfo(repo_path, q) ==
  /\ found' = Some([op |-> "info", repo_path |-> repo_path, q |-> q,
                    info |-> collect_git_info_for_path(repo_path, tree, gitOK, q)])
  /\ UNCHANGED <<file, clock, cfgFiles, log, tree, gitOK, lastSave, result, shown,
                 pc, arg, off, loaded, hist>>

NextInfo ==
  \E repo_path \in {CwdString \o <<"/", "a">>, CwdString \o <<"/", "b">>}, q \in InfoAnswers :
    CollectGitInfo(repo_path, q)

SpecInfo == InitInfo /\ [][NextInfo]_vars

----------------------------------------------------------------------------
(* Reports over snapshots with long commands and with pipes in the fields *)

\* a build command of n characters that the default patterns keep
LongCommand(n) == <<"m", "m", " ">> \o Repeat("x", n - 3)

\* a line of the entry point of n characters that parse_entry_point_commands keeps
LongExample(n) == <<".", "/", "b", ".", "s", "h", " ">> \o Repeat("x", n - 7)

RenderLogs ==
  { StoreLog,
    [p \in LogPaths |->
       IF p = DefaultLogPath
       THEN [kind |-> "regular",
             lines |-> << JsonLine(Some(LongCommand(CmdMax)), Some(<<"t1">>)),
                          JsonLine(Some(LongCommand(CmdMax + 1)), Some(<<"t2">>)) >>]
       ELSE NoLog],
    [p \in LogPaths |->
       IF p = DefaultLogPath
       THEN [kind |-> "regular",
             lines |-> << JsonLine(Some(<<"m", "m", " ", "|", " ", "x">>),
                                   Some(<<"t", "|", "3">>)) >>]
       ELSE NoLog] }

LongExternals ==
  [SomeExternals EXCEPT
     !.commands = << LongExample(CmdMax), LongExample(CmdMax + 1) >>]

PipeExternals ==
  [targets |-> << [name |-> <<"t">>, description |-> <<"d", "|", "e">>,
                   container_name |-> <<"k">>, lunch_target |-> <<"l">>,
                   can_emulator |-> FALSE, can_flash |-> FALSE] >>,
   ps |-> <<>>,
   commands |-> <<>>,
   devices |-> << [serial |-> <<"s", "|", "1">>, state |-> <<"device">>,
                   device_type |-> <<"adb">>] >>]

RenderExternals == {NoExternals, SomeExternals, LongExternals, PipeExternals}

GitPipes ==
  [branch |-> Some(<<"x", "|", "y">>), describe |-> NoneV,
   status |-> Some(<< <<" ", "M", " ", "f">> >>),
   logline |-> Some(<<"h", " ", "|">>)]

RenderAnswers == {GitAllFail, GitTypical, GitPipes}

InitRender ==
  /\ file = Absent
  /\ clock = 0
  /\ cfgFiles = << ConfigFile(StoreConfig), NoFile, NoFile >>
  /\ log \in RenderLogs
  /\ tree = StoreTree
  /\ gitOK = TRUE
  /\ IdleStore
  /\ IdleRace
  /\ IdleCollectors

NextRender ==
  \/ \E level \in LevelParams, ext \in RenderExternals, q \in RenderAnswers :
       GetDevContext(level, ext, q)
  \/ \E level \in LevelParams, ext \in RenderExternals, q \in RenderAnswers :
       CliContext(level, ext, q)

SpecRender == InitRender /\ [][NextRender]_vars

----------------------------------------------------------------------------
(* The claims *)

\* s holds sub as a contiguous part
Contains(s, sub) ==
  \E i \in 0..(Len(s) - Len(sub)) : SubSeq(s, i + 1, i + Len(sub)) = sub

\* every string of ss, wrapped in before and after, is a part of s
ContainsEach(s, ss, before, after) ==
  \A i \in 1..Len(ss) : Contains(s, before \o ss[i] \o after)

\* C1: after a successful save of a WorkState s, whatever the work-state file
\* held before (nothing, text that is no WorkState, an earlier snapshot), a
\* load returns a state equal to s in every field; after a sequence of saves
\* the load returns exactly the last successful one and nothing of the earlier.
C1_SaveLoadRoundTrip ==
  lastSave.ok => load_work_state_from_file(file) = Some(lastSave.state.v)

C1_Witness ==
  /\ lastSave.ok
  /\ clock = MaxClock
  /\ lastSave.state.v.working_files = << <<"f">>, <<"f">> >>
  /\ lastSave.state.v.todos # <<>>
  /\ Contains(lastSave.state.v.task_summary, <<"\"", "\\">>)
  /\ load_work_state_from_file(file) = Some(lastSave.state.v)

\* the work-state file is absent, unreadable, or holds no WorkState
NothingToLoad(f) ==
  f.kind # "regular" \/ ~from_str_work_state(f.content).some

\* C2: when the work-state file is absent, unreadable or holds text that does
\* not parse as a WorkState, the aggregation does not fail: the snapshot has no
\* work state, and every other section is what it is without the file.
C2_LoadNothingKeepsSnapshot ==
  (shown.some /\ NothingToLoad(file)) =>
    /\ ~shown.v.is_error
    /\ shown.v.ctx.work_state = NoneV
    /\ shown.v.ctx = collect_context(read_config(cfgFiles), shown.v.ext, log, tree,
                                     gitOK, shown.v.q, Absent)

C2_Witness ==
  /\ shown.some
  /\ file.kind = "regular"
  /\ lastSave.op = "tool"
  /\ ~lastSave.ok
  /\ NothingToLoad(file)
  /\ shown.v.ctx.work_state = NoneV
  /\ shown.v.ctx.command_history # <<>>

\* the lines of a saved state in a report of the given level
ShowsTask(markdown, level, ws) ==
  IF level = "minimal"
  THEN /\ Contains(markdown, <<"**Task:** ">> \o ws.task_summary \o <<"\n">>)
       /\ ws.working_files # <<>> =>
            Contains(markdown, <<"**Files:** ">> \o join(ws.working_files, <<", ">>)
                               \o <<"\n">>)
       /\ ws.notes # <<>> => Contains(markdown, <<"**Notes:** ">> \o ws.notes \o <<"\n">>)
  ELSE /\ Contains(markdown, <<"- **Task:** ">> \o ws.task_summary \o <<"\n">>)
       /\ ContainsEach(markdown, ws.working_files, <<"  - ">>, <<"\n">>)
       /\ ws.notes # <<>> => Contains(markdown, <<"- **Notes:** ">> \o ws.notes \o <<"\n">>)

\* C3: after a successful save_work_state with a non-empty task summary and no
\* later save, the report of get_dev_context at every level (minimal, normal,
\* full, any other string) holds the task summary, and the working files and
\* the notes of that save when they are not empty.
C3_ReportShowsSavedTask ==
  (shown.some /\ lastSave.op = "tool" /\ lastSave.ok
   /\ lastSave.state.v.task_summary # <<>>) =>
    ShowsTask(shown.v.markdown, shown.v.level, lastSave.state.v)

C3_Witness ==
  /\ shown.some
  /\ shown.v.level = "FULL"
  /\ lastSave.op = "tool"
  /\ lastSave.ok
  /\ lastSave.state.v.task_summary # <<>>
  /\ lastSave.state.v.working_files # <<>>
  /\ lastSave.state.v.notes # <<>>
  /\ ShowsTask(shown.v.markdown, shown.v.level, lastSave.state.v)

\* C4: save_work_state never returns an operation-level error: when the write
\* failed its result is a success-shaped one whose text reports the failure,
\* and when the write succeeded the text names the task, the number of files
\* and the number of todos.
C4_SaveFailureIsText ==
  result.some =>
    /\ ~result.v.is_error
    /\ lastSave.ok =>
         Contains(result.v.text,
                  <<"Work state saved successfully.\n\n- Task: ">>
                  \o lastSave.state.v.task_summary
                  \o <<"\n- Files: ", ToString(Len(lastSave.state.v.working_files)),
                       "\n- Todos: ", ToString(Len(lastSave.state.v.todos))>>)
    /\ ~lastSave.ok => Head(result.v.text) = "Failed to save work state: "

C4_Witness ==
  /\ result.some
  /\ ~lastSave.ok
  /\ file = Regular(<<>>)
  /\ ~result.v.is_error
  /\ Head(result.v.text) = "Failed to save work state: "

\* C11: for every snapshot and every level string other than "minimal",
\* "normal" and "full" (the empty string and "FULL" among them), the report is
\* the same text as the report at level "normal", and never an error.
C11_UnknownLevelIsNormal ==
  (shown.some /\ shown.v.level \notin {"minimal", "normal", "full"}) =>
    /\ ~shown.v.is_error
    /\ shown.v.markdown = format_context_markdown(shown.v.ctx, "normal")

C11_Witness ==
  /\ shown.some
  /\ shown.v.level = ""
  /\ shown.v.ctx.work_state.some
  /\ shown.v.markdown = format_normal(shown.v.ctx)
  /\ shown.v.markdown # format_minimal(shown.v.ctx)
  /\ shown.v.markdown # format_full(shown.v.ctx)

\* C5: when two saves interleave, each creating the file and then writing its
\* content, then once both have completed a load returns the complete state of
\* one of the two writers.
C5_LastWriterWins ==
  (pc[1] = "done" /\ pc[2] = "done") =>
    load_work_state_from_file(file) \in {arg[1], arg[2]}

\* C6: when the working directory is itself a working tree (git says so),
\* collect_git_repos returns exactly one status, of repo_path ".", whatever the
\* configuration holds: explicit paths, auto_detect, scan_depth.
C6_RootShortCircuit ==
  (found.some /\ found.v.op = "collect" /\ gitOK /\ <<>> \in tree.markers) =>
    /\ Len(found.v.repos) = 1
    /\ found.v.repos[1].repo_path = <<".">>

C6_Witness ==
  /\ found.some
  /\ found.v.op = "collect"
  /\ gitOK
  /\ {<<>>, <<"b">>} \subseteq tree.markers
  /\ found.v.git.some
  /\ found.v.git.v.paths.some
  /\ Len(found.v.git.v.paths.v) > 1
  /\ Len(found.v.repos) = 1
  /\ found.v.repos[1].repo_path = <<".">>

\* path x lies below path y
DescendantOf(x, y) == Len(x) > Len(y) + 1 /\ SubSeq(x, 1, Len(y) + 1) = y \o <<"/">>

\* C7: for every tree and every max_depth, no path find_git_repos returns is a
\* descendant of another path it returns.
C7_NoNestedRepos ==
  (found.some /\ found.v.op = "find") =>
    \A i, j \in 1..Len(found.v.paths) :
      ~DescendantOf(found.v.paths[i], found.v.paths[j])

C7_Witness ==
  /\ found.some
  /\ found.v.op = "find"
  /\ found.v.max_depth >= 2
  /\ {<<"a">>, <<"a", "b">>} \subseteq tree.markers
  /\ found.v.paths = << <<"a">> >>

\* a line qualifies: it is a record with a non-empty command that matches one
\* of the compiled patterns, or any non-empty command when there is none
Qualifies(line, compiled) ==
  /\ line.kind = "json"
  /\ line.command.some
  /\ line.command.v # <<>>
  /\ compiled = <<>> \/ \E i \in 1..Len(compiled) : is_match(compiled[i], line.command.v)

\* the last n of a sequence
LastN(xs, n) == IF Len(xs) > n THEN SubSeq(xs, Len(xs) - n + 1, Len(xs)) ELSE xs

\* the commands of the qualifying lines, in file order
QualifyingCommands(lines, compiled) ==
  LET q == SelectSeq(lines, LAMBDA l : Qualifies(l, compiled))
  IN [i \in 1..Len(q) |-> q[i].command.v]

\* the log a history section reads
LogOf(h) == log[unwrap_or(h.log_file, DefaultLogPath)]

Commands(entries) == [i \in 1..Len(entries) |-> entries[i].command]

\* C8: for every log and every max_entries, the history filter returns the
\* qualifying lines in file order, the last max_entries of them when more
\* qualify; with an empty pattern set every non-empty command qualifies.
C8_LastQualifyingInOrder ==
  (hist.some /\ hist.v.history.some
   /\ unwrap_or(hist.v.history.v.enabled, TRUE)
   /\ LogOf(hist.v.history.v).kind = "regular") =>
    Commands(hist.v.entries)
      = LastN(QualifyingCommands(
                LogOf(hist.v.history.v).lines,
                compile_patterns(unwrap_or(hist.v.history.v.patterns, default_patterns))),
              unwrap_or(hist.v.history.v.max_entries, DefaultMaxEntries))

\* the history section with nothing given
DefaultHistory ==
  [enabled |-> NoneV, log_file |-> NoneV, patterns |-> NoneV, max_entries |-> NoneV]

\* C9: history collection is enabled by default: a configuration without a
\* history section is read as one with nothing given, so the default log is
\* read and filtered with the default patterns and the default max_entries.
C9_EnabledByDefault ==
  (hist.some /\ ~hist.v.history.some) =>
    hist.v.entries
      = collect_command_history([DefaultConfig EXCEPT !.history = Some(DefaultHistory)], log)

\* the lines that are records
WellFormed(lines) == SelectSeq(lines, LAMBDA l : l.kind = "json")

\* C10: a line that is not a record or not text is skipped on its own: the
\* result is what the log without its bad lines gives.
C10_BadLineSkippedAlone ==
  (hist.some /\ hist.v.history.some) =>
    hist.v.entries
      = collect_command_history(
          [DefaultConfig EXCEPT !.history = hist.v.history],
          [log EXCEPT ![unwrap_or(hist.v.history.v.log_file, DefaultLogPath)].lines
                        = WellFormed(@)])

\* a repository status was collected
InfoCollected == found.some /\ found.v.op = "info" /\ found.v.info.some

\* the compact status code of the counts m and u
StatusCode(m, u) ==
  IF m > 0 /\ u > 0 THEN <<ToString(m), "M ", ToString(u), "U">>
  ELSE IF m > 0 THEN <<ToString(m), "M">>
  ELSE IF u > 0 THEN <<ToString(u), "U">>
  ELSE <<"clean">>

\* C12: the compact status code of a repository status is "{m}M {u}U" when
\* both counts are positive, "{m}M" or "{u}U" when one is, "clean" when none
\* is: the two counts alone decide it.
C12_StatusCodeByCounts ==
  InfoCollected =>
    format_git_status(found.v.info.v)
      = StatusCode(found.v.info.v.modified_files, found.v.info.v.untracked_files)

C12_Witness ==
  /\ InfoCollected
  /\ found.v.info.v.modified_files = 2
  /\ found.v.info.v.untracked_files = 3
  /\ format_git_status(found.v.info.v) = <<"2", "M ", "3", "U">>

\* C19: every repository status the collector produces has
\* dirty = (modified > 0 or untracked > 0), whichever sub-queries succeed; when
\* the status sub-query fails both counts are 0 and dirty is false.
C19_DirtyIffCounts ==
  InfoCollected =>
    /\ found.v.info.v.is_dirty
         = (found.v.info.v.modified_files > 0 \/ found.v.info.v.untracked_files > 0)
    /\ ~found.v.q.status.some =>
         /\ found.v.info.v.modified_files = 0
         /\ found.v.info.v.untracked_files = 0
         /\ ~found.v.info.v.is_dirty

C19_Witness ==
  /\ InfoCollected
  /\ ~found.v.q.branch.some
  /\ ~found.v.q.logline.some
  /\ found.v.q.status.some
  /\ found.v.info.v.modified_files = 0
  /\ found.v.info.v.untracked_files = 1
  /\ found.v.info.v.is_dirty

\* the visible characters of a string: the ellipsis marker is three
VisibleLen(s) == Len(s) + 2 * Cardinality({i \in 1..Len(s) : s[i] = "..."})

\* C20: the last-commit summary is decided by the count of characters: a line
\* of at most 50 characters is stored as it is, a longer one is cut and ends
\* with the ellipsis, and the stored summary never has more than 50.
C20_CommitCutByCharacters ==
  (InfoCollected /\ found.v.q.logline.some) =>
    /\ Len(found.v.q.logline.v) <= CommitMax =>
         found.v.info.v.last_commit_short = found.v.q.logline.v
    /\ Len(found.v.q.logline.v) > CommitMax =>
         /\ found.v.info.v.last_commit_short[Len(found.v.info.v.last_commit_short)] = "..."
         /\ SubSeq(found.v.info.v.last_commit_short, 1,
                   Len(found.v.info.v.last_commit_short) - 1)
              = SubSeq(found.v.q.logline.v, 1, Len(found.v.info.v.last_commit_short) - 1)
    /\ VisibleLen(found.v.info.v.last_commit_short) <= CommitMax

\* a field value with every pipe escaped
RECURSIVE Escaped(_)
Escaped(v) ==
  IF v = <<>> THEN <<>>
  ELSE (IF Head(v) = "|" THEN <<"\\", "|">> ELSE <<Head(v)>>) \o Escaped(Tail(v))

\* a command as a report may show it: cut to 77 characters and the ellipsis
\* when longer than 80
CutCommand(c) ==
  IF Len(c) > CmdMax THEN SubSeq(c, 1, CmdKeep) \o <<"...">> ELSE c

\* the report shows the command c cut, and not in full when it is too long
ShowsCut(markdown, c) ==
  /\ Contains(markdown, Escaped(CutCommand(c)))
  /\ Len(c) > CmdMax => ~Contains(markdown, c)

\* C13: in every report a command longer than 80 characters appears as its
\* first 77 characters and "...", a command of at most 80 characters as it is,
\* in the history table and in the example-commands block of the full level.
C13_CommandsCut ==
  (shown.some /\ shown.v.level = "full") =>
    /\ \A i \in 1..Len(shown.v.ctx.command_history) :
         ShowsCut(shown.v.markdown, shown.v.ctx.command_history[i].command)
    /\ \A i \in 1..Len(shown.v.ctx.available_commands) :
         ShowsCut(shown.v.markdown, shown.v.ctx.available_commands[i])

\* a table row of cells
TableRow(cells) == <<"| ">> \o join(cells, <<" | ">>) \o <<" |\n">>

\* C14: in every table of a report (the dirty-repository table of the normal
\* level; the target, history, repository and device tables of the full
\* level) every pipe of a field value is escaped in its cell.
C14_PipesEscaped ==
  shown.some =>
    IF shown.v.level = "minimal" THEN TRUE
    ELSE IF shown.v.level = "full"
    THEN /\ \A i \in 1..Len(shown.v.ctx.targets) :
              Contains(shown.v.markdown,
                       TableRow(<< Escaped(shown.v.ctx.targets[i].name),
                                   Escaped(shown.v.ctx.targets[i].description),
                                   Escaped(shown.v.ctx.targets[i].container_name),
                                   Escaped(shown.v.ctx.targets[i].lunch_target) >>))
         /\ \A i \in 1..Len(shown.v.ctx.command_history) :
              Contains(shown.v.markdown,
                       <<"| ">> \o Escaped(shown.v.ctx.command_history[i].timestamp)
                       \o <<" | '">>
                       \o Escaped(CutCommand(shown.v.ctx.command_history[i].command))
                       \o <<"' |\n">>)
         /\ \A i \in 1..Len(shown.v.ctx.git_repos) :
              Contains(shown.v.markdown,
                       TableRow(<< Escaped(shown.v.ctx.git_repos[i].repo_path),
                                   Escaped(shown.v.ctx.git_repos[i].branch),
                                   format_git_status(shown.v.ctx.git_repos[i]),
                                   Escaped(shown.v.ctx.git_repos[i].last_commit_short) >>))
         /\ \A i \in 1..Len(shown.v.ctx.adb_devices) :
              Contains(shown.v.markdown,
                       TableRow(<< Escaped(shown.v.ctx.adb_devices[i].serial),
                                   Escaped(shown.v.ctx.adb_devices[i].state),
                                   Escaped(shown.v.ctx.adb_devices[i].device_type) >>))
    ELSE \A i \in 1..Len(shown.v.ctx.git_repos) :
           shown.v.ctx.git_repos[i].is_dirty =>
             Contains(shown.v.markdown,
                      TableRow(<< Escaped(shown.v.ctx.git_repos[i].repo_path),
                                  Escaped(shown.v.ctx.git_repos[i].branch),
                                  format_git_status(shown.v.ctx.git_repos[i]) >>))

\* C15: emitting a report (through get_dev_context or --context, at any
\* level) leaves the work-state file and the history log as they are; only a
\* save of the work state changes what is persisted.
C15_ReportChangesNothing ==
  [][/\ (shown'.some /\ shown' # shown) => (file' = file /\ log' = log)
     /\ (file' # file \/ log' # log) =>
          (shown' = NoneV /\ lastSave'.op \in {"tool", "hook"})]_vars

C15_Witness ==
  /\ shown.some
  /\ shown.v.via = "cli"
  /\ lastSave.ok
  /\ shown.v.ctx.work_state = Some(lastSave.state.v)
  /\ load_work_state_from_file(file) = shown.v.ctx.work_state
  /\ log = StoreLog

\* a line is to be kept under a configured pattern set: it is a record, its
\* command is not empty, and the set is empty or one of its patterns that
\* compile matches the command
KeptByRule(line, configured) ==
  /\ line.kind = "json"
  /\ line.command.some
  /\ line.command.v # <<>>
  /\ \/ configured = <<>>
     \/ \E i \in 1..Len(configured) :
          Regex_new(configured[i]).some /\ is_match(configured[i], line.command.v)

\* the commands of the lines to be kept, in file order
KeptCommands(lines, configured) ==
  LET k == SelectSeq(lines, LAMBDA l : KeptByRule(l, configured))
  IN [i \in 1..Len(k) |-> k[i].command.v]

\* C16: a history line is kept if and only if it parses, its command is not
\* empty, and the configured pattern set is empty or the command matches a
\* pattern that compiled: with a non-empty configured set a command matching
\* no compiled pattern is never kept, also when patterns fail to compile.
C16_KeptIffMatchesCompiled ==
  (hist.some /\ hist.v.history.some
   /\ unwrap_or(hist.v.history.v.enabled, TRUE)
   /\ LogOf(hist.v.history.v).kind = "regular"
   /\ \A i \in 1..Len(LogOf(hist.v.history.v).lines) :
        LogOf(hist.v.history.v).lines[i].kind # "undecodable") =>
    Commands(hist.v.entries)
      = LastN(KeptCommands(LogOf(hist.v.history.v).lines,
                           unwrap_or(hist.v.history.v.patterns, default_patterns)),
              unwrap_or(hist.v.history.v.max_entries, DefaultMaxEntries))

\* collect_git_repos ran in a working directory that is no working tree
CollectedBelow ==
  found.some /\ found.v.op = "collect" /\ ~(gitOK /\ <<>> \in tree.markers)

\* the candidate paths of a git section: the configured ones if given, else
\* the discovered ones if auto_detect is on (the default), else none
Candidates(g) ==
  IF g.some /\ g.v.paths.some THEN g.v.paths.v
  ELSE IF g.some /\ g.v.auto_detect.some /\ ~g.v.auto_detect.v THEN <<>>
  ELSE find_git_repos(IF g.some /\ g.v.scan_depth.some THEN g.v.scan_depth.v
                      ELSE DefaultScanDepth, tree)

\* the status of a candidate path, if its collection succeeds
StatusOf(path, q) ==
  collect_git_info_for_path(IF is_absolute(path) THEN path ELSE CwdString \o <<"/">> \o path,
                            tree, gitOK, q)

\* how often x occurs in the sequence xs
Count(xs, x) == Cardinality({i \in 1..Len(xs) : xs[i] = x})

\* the candidates whose collection succeeds
Collected(g, q) == SelectSeq(Candidates(g), LAMBDA p : StatusOf(p, q).some)

RepoPaths(repos) == [i \in 1..Len(repos) |-> repos[i].repo_path]

\* C17: when the working directory is no working tree, the candidates are the
\* configured paths if given (also when empty, also with auto_detect on), else
\* the discovered ones if auto_detect is on, else none; the result is the
\* statuses of the candidates that succeed, sorted by repo_path, the first 10.
C17_AggregationPolicy ==
  CollectedBelow =>
    /\ Len(found.v.repos)
         = (IF Len(Collected(found.v.git, found.v.q)) > RepoCap THEN RepoCap
            ELSE Len(Collected(found.v.git, found.v.q)))
    /\ \A i \in 1..Len(found.v.repos) :
         /\ StatusOf(found.v.repos[i].repo_path, found.v.q).some
         /\ found.v.repos[i]
              = [StatusOf(found.v.repos[i].repo_path, found.v.q).v
                   EXCEPT !.repo_path = found.v.repos[i].repo_path]
         /\ Count(RepoPaths(found.v.repos), found.v.repos[i].repo_path)
              <= Count(Collected(found.v.git, found.v.q), found.v.repos[i].repo_path)
    /\ \A i, j \in 1..Len(found.v.repos) :
         i < j => ~StrLess(found.v.repos[j].repo_path, found.v.repos[i].repo_path)
    /\ \A k \in 1..Len(Collected(found.v.git, found.v.q)) :
         Count(RepoPaths(found.v.repos), Collected(found.v.git, found.v.q)[k])
           < Count(Collected(found.v.git, found.v.q), Collected(found.v.git, found.v.q)[k])
         => /\ Len(found.v.repos) = RepoCap
            /\ ~StrLess(Collected(found.v.git, found.v.q)[k],
                        found.v.repos[RepoCap].repo_path)

C17_Witness ==
  /\ CollectedBelow
  /\ found.v.git.some
  /\ found.v.git.v.paths.some
  /\ found.v.git.v.auto_detect = Some(TRUE)
  /\ Len(Collected(found.v.git, found.v.q)) > RepoCap
  /\ Len(found.v.repos) = RepoCap
  /\ found.v.repos[1].repo_path = CwdString \o <<"/", "a">>
  /\ <<"b">> \in tree.markers
  /\ Count(RepoPaths(found.v.repos), <<"b">>) = 0

\* C18: in every snapshot repo_path is a unique key of the repository
\* statuses, for every configuration, configured path lists included.
C18_RepoPathUnique ==
  (found.some /\ found.v.op = "collect") =>
    \A i, j \in 1..Len(found.v.repos) :
      i # j => found.v.repos[i].repo_path # found.v.repos[j].repo_path

\* C21: every WorkState the program writes, by save_work_state with any todos
\* text or by --save-state, has a trigger among manual, pre_compact, auto and
\* every todo's status among pending, in_progress, completed.
C21_TriggerAndStatusSets ==
  lastSave.ok =>
    /\ lastSave.state.v.trigger \in {<<"manual">>, <<"pre_compact">>, <<"auto">>}
    /\ \A i \in 1..Len(lastSave.state.v.todos) :
         lastSave.state.v.todos[i].status
           \in {<<"pending">>, <<"in_progress">>, <<"completed">>}

\* the first of the files that exists, if any does
FirstExisting(files) ==
  IF \E i \in 1..Len(files) : files[i].kind # "absent"
  THEN Some(files[CHOOSE i \in 1..Len(files) :
                    /\ files[i].kind # "absent"
                    /\ \A j \in 1..(i - 1) : files[j].kind = "absent"])
  ELSE NoneV

\* C22: the configuration used is that of the first existing file among
\* contextkeeper.toml, context-keeper.toml, .contextkeeper.toml in this order;
\* no later file is consulted when an earlier one exists, and when the first
\* existing file cannot be used (or none exists) the defaults apply.
C22_FirstExistingFile ==
  (found.some /\ found.v.op = "config") =>
    found.v.config =
      IF FirstExisting(cfgFiles).some /\ FirstExisting(cfgFiles).v.kind = "config"
      THEN FirstExisting(cfgFiles).v.config
      ELSE DefaultConfig

\* C23: a load that runs at any point while saves are under way (after a
\* create, between the write calls of write_all) returns nothing or a WorkState
\* that was the whole argument of one of the saves, never a state put together
\* from a partial write or from two saves.
C23_LoadSeesWholeSave ==
  (loaded.some /\ loaded.v.some) => \E p \in Procs : arg[p] = loaded.v

\* a step that is a save (tool or hook) which returned an I/O error
FailedSave == lastSave'.op \in {"tool", "hook"} /\ ~lastSave'.ok /\ shown' = NoneV

\* C24: a save that fails with an I/O error, at the directory, at the creation
\* of the file or during the write, leaves the persisted state as it was: a load
\* after it returns what a load just before it returned.
C24_FailedSaveKeepsState ==
  [][FailedSave =>
       load_work_state_from_file(file') = load_work_state_from_file(file)]_vars

============================================================================
